---------------------------- MODULE Spec2Model ----------------------------
(***************************************************************************)
(* A model of the behavior-tree execution engine of src/src/state.rs:      *)
(* the cursor type State, its construction State::new, and the step        *)
(* operations State::tick and State::event.                                *)
(*                                                                         *)
(* Time (f64 in the source) is modelled by integers: every duration and    *)
(* every delta time is a whole number of time units.                       *)
(***************************************************************************)
EXTENDS Integers, Sequences, FiniteSets, TLC

(***************************************************************************)
(* Bounds of the model.                                                    *)
(***************************************************************************)
\* Largest delta time carried by an update event.
MaxDt == 3
\* Largest duration of a Wait behavior.
MaxWait == 2
\* Largest number of children of a list combinator.
MaxLen == 2
\* Wait runs: the largest duration and the largest delta time fed.
MaxTotal == 5
MaxFeed == 7
\* The largest delta time fed to an If cursor.
MaxIfDt == 4

(***************************************************************************)
(* Option<T>: None is the empty tuple, Some(x) the one-element tuple.      *)
(***************************************************************************)
None == <<>>
Some(x) == <<x>>
IsSome(o) == o # <<>>
Unwrap(o) == o[1]
UnwrapOr(o, d) == IF o = <<>> THEN d ELSE o[1]

Min(a, b) == IF a <= b THEN a ELSE b

(***************************************************************************)
(* Status.  "Diverge" is not a value of the type: it marks a call of       *)
(* event that never returns.                                               *)
(***************************************************************************)
Running == "Running"
Success == "Success"
Failure == "Failure"
Diverge == "Diverge"

\* pub const RUNNING: (Status, f64) = (Running, 0.0)
RUNNING == <<Running, 0>>

\* f64::MAX, the initial "least delta time" of the After arm.
F64MAX == 1000000

(***************************************************************************)
(* Events.  An update event carries a delta time; an input event is a      *)
(* discrete event that carries none.                                       *)
(***************************************************************************)
UpdateEv(dt) == [kind |-> "Update", dt |-> dt]
InputEv == [kind |-> "Input", dt |-> 0]
Events == {UpdateEv(dt) : dt \in 0..MaxDt} \cup {InputEv}

\* e.update(|args| Some(args.dt)).unwrap_or(None)
Update(e) == IF e.kind = "Update" THEN Some(e.dt) ELSE None
\* UpdateEvent::from_dt(dt, e)
FromDt(dt, e) == IF e.kind = "Update" THEN Some(UpdateEv(dt)) ELSE None
\* The event handed to a child: the derived event with the remaining delta
\* time for an update event, the event itself otherwise.
\* Mutant of RemainingE: derives an update event whatever the event is.
RemainingEDerives(upd, remaining_dt, e) == UpdateEv(remaining_dt)

RemainingE(upd, remaining_dt, e) ==
    IF IsSome(upd) THEN Unwrap(FromDt(remaining_dt, e)) ELSE e

(***************************************************************************)
(* Behavior<A>.                                                            *)
(***************************************************************************)
Action(a) == [tag |-> "Action", action |-> a]
Fail(b) == [tag |-> "Fail", child |-> b]
AlwaysSucceed(b) == [tag |-> "AlwaysSucceed", child |-> b]
Wait(dt) == [tag |-> "Wait", dt |-> dt]
WaitForever == [tag |-> "WaitForever"]
If(c, s, f) == [tag |-> "If", condition |-> c, success |-> s, failure |-> f]
Select(sel) == [tag |-> "Select", seq |-> sel]
Sequence(seq) == [tag |-> "Sequence", seq |-> seq]
While(ev, rep) == [tag |-> "While", ev |-> ev, rep |-> rep]
WhenAll(all) == [tag |-> "WhenAll", all |-> all]
WhenAny(all) == [tag |-> "WhenAny", all |-> all]
After(seq) == [tag |-> "After", seq |-> seq]

(***************************************************************************)
(* State<A, S>, the cursor.  Indices are those of the source (from 0);     *)
(* the child at index i of a list l is l[i + 1].                           *)
(***************************************************************************)
ActionState(a, local) == [tag |-> "ActionState", action |-> a, local |-> local]
FailState(cur) == [tag |-> "FailState", cur |-> cur]
AlwaysSucceedState(cur) == [tag |-> "AlwaysSucceedState", cur |-> cur]
WaitState(wait_t, t) == [tag |-> "WaitState", wait_t |-> wait_t, t |-> t]
WaitForeverState == [tag |-> "WaitForeverState"]
IfState(success, failure, status, st) ==
    [tag |-> "IfState", success |-> success, failure |-> failure,
     status |-> status, state |-> st]
SelectState(seq, i, cursor) ==
    [tag |-> "SelectState", seq |-> seq, i |-> i, cursor |-> cursor]
SequenceState(seq, i, cursor) ==
    [tag |-> "SequenceState", seq |-> seq, i |-> i, cursor |-> cursor]
WhileState(ev_cursor, rep, i, cursor) ==
    [tag |-> "WhileState", ev_cursor |-> ev_cursor, rep |-> rep, i |-> i,
     cursor |-> cursor]
WhenAllState(slots) == [tag |-> "WhenAllState", slots |-> slots]
WhenAnyState(slots) == [tag |-> "WhenAnyState", slots |-> slots]
AfterState(i, cursors) == [tag |-> "AfterState", i |-> i, cursors |-> cursors]

(***************************************************************************)
(* State::new                                                              *)
(***************************************************************************)
RECURSIVE New(_)
\* Mutant of New: the WhenAll and WhenAny cursors swapped.
NewSwapsWhen(behavior) ==
    CASE behavior.tag = "Action" -> ActionState(behavior.action, None)
      [] behavior.tag = "Fail" -> FailState(New(behavior.child))
      [] behavior.tag = "AlwaysSucceed" -> AlwaysSucceedState(New(behavior.child))
      [] behavior.tag = "Wait" -> WaitState(behavior.dt, 0)
      [] behavior.tag = "WaitForever" -> WaitForeverState
      [] behavior.tag = "If" ->
            IfState(behavior.success, behavior.failure, Running,
                    New(behavior.condition))
      [] behavior.tag = "Select" ->
            SelectState(behavior.seq, 0, New(behavior.seq[1]))
      [] behavior.tag = "Sequence" ->
            SequenceState(behavior.seq, 0, New(behavior.seq[1]))
      [] behavior.tag = "While" ->
            WhileState(New(behavior.ev), behavior.rep, 0, New(behavior.rep[1]))
      [] behavior.tag = "WhenAll" ->
            WhenAnyState([k \in 1..Len(behavior.all) |-> Some(New(behavior.all[k]))])
      [] behavior.tag = "WhenAny" ->
            WhenAllState([k \in 1..Len(behavior.all) |-> Some(New(behavior.all[k]))])
      [] behavior.tag = "After" ->
            AfterState(0, [k \in 1..Len(behavior.seq) |-> New(behavior.seq[k])])

New(behavior) ==
    CASE behavior.tag = "Action" -> ActionState(behavior.action, None)
      [] behavior.tag = "Fail" -> FailState(New(behavior.child))
      [] behavior.tag = "AlwaysSucceed" -> AlwaysSucceedState(New(behavior.child))
      [] behavior.tag = "Wait" -> WaitState(behavior.dt, 0)
      [] behavior.tag = "WaitForever" -> WaitForeverState
      [] behavior.tag = "If" ->
            IfState(behavior.success, behavior.failure, Running,
                    New(behavior.condition))
      [] behavior.tag = "Select" ->
            SelectState(behavior.seq, 0, New(behavior.seq[1]))
      [] behavior.tag = "Sequence" ->
            SequenceState(behavior.seq, 0, New(behavior.seq[1]))
      [] behavior.tag = "While" ->
            WhileState(New(behavior.ev), behavior.rep, 0, New(behavior.rep[1]))
      [] behavior.tag = "WhenAll" ->
            WhenAllState([k \in 1..Len(behavior.all) |-> Some(New(behavior.all[k]))])
      [] behavior.tag = "WhenAny" ->
            WhenAnyState([k \in 1..Len(behavior.all) |-> Some(New(behavior.all[k]))])
      [] behavior.tag = "After" ->
            AfterState(0, [k \in 1..Len(behavior.seq) |-> New(behavior.seq[k])])

(***************************************************************************)
(* The action callback f.  The host supplies it; the model draws it from   *)
(* five action payloads:                                                   *)
(*   Inc, Dec  complete at once and hand back the delta time they were     *)
(*         given (the callback of tests::test_bt_tick);                    *)
(*   Flop  fails at once and hands back the delta time it was given;       *)
(*   Idle  keeps running and hands back the delta time it was given;       *)
(*   Work  uses the action's state slot: it runs, consuming the delta      *)
(*         time, on its first call and completes on its second.            *)
(***************************************************************************)
Actions == {"Inc", "Dec", "Flop", "Idle", "Work"}

Callback(action, dt, local) ==
    CASE action = "Inc" -> [status |-> Success, dt |-> dt, local |-> local]
      [] action = "Dec" -> [status |-> Success, dt |-> dt, local |-> local]
      [] action = "Flop" -> [status |-> Failure, dt |-> dt, local |-> local]
      [] action = "Idle" -> [status |-> Running, dt |-> dt, local |-> local]
      [] action = "Work" ->
            IF local = None
            THEN [status |-> Running, dt |-> 0, local |-> Some(1)]
            ELSE [status |-> Success, dt |-> dt, local |-> local]

(***************************************************************************)
(* The outcome of one call of event: the cursor it leaves, the (Status,    *)
(* f64) it returns, and the calls of the callback it made, in order, each  *)
(* <<action, dt, event>> (the fields of ActionArgs).                       *)
(***************************************************************************)
Res(s, status, dt, calls) ==
    [s |-> s, status |-> status, dt |-> dt, calls |-> calls]


RECURSIVE event(_, _)
RECURSIVE sequence_loop(_, _, _, _, _, _, _, _)
RECURSIVE when_all_loop(_, _, _, _, _, _)
RECURSIVE WhileLoop(_, _, _, _, _)
RECURSIVE AfterLoop(_, _, _, _, _)
RECURSIVE AfterLoopLe(_, _, _, _, _)

(***************************************************************************)
(* ActionState: execute the action.                                        *)
(***************************************************************************)
\* Mutant of ActionArm: hands the callback no delta time.
ActionArmNoDt(self, e) ==
    LET dt == 0
        r == Callback(self.action, dt, self.local)
    IN  Res([self EXCEPT !.local = r.local], r.status, r.dt,
            << <<self.action, dt, e>> >>)

ActionArm(self, e) ==
    LET upd == Update(e)
        dt == UnwrapOr(upd, 0)
        r == Callback(self.action, dt, self.local)
    IN  Res([self EXCEPT !.local = r.local], r.status, r.dt,
            << <<self.action, dt, e>> >>)

(***************************************************************************)
(* FailState: converts Success into Failure and vice versa.                *)
(***************************************************************************)
\* Mutant of FailArm: a Success turned into Failure loses its leftover dt.
FailArmDropsDt(self, e) ==
    LET c == event(self.cur, e)
        s == FailState(c.s)
    IN  CASE c.status = Running -> Res(s, Running, c.dt, c.calls)
          [] c.status = Failure -> Res(s, Success, c.dt, c.calls)
          [] c.status = Success -> Res(s, Failure, 0, c.calls)
          [] OTHER -> Res(s, Diverge, 0, c.calls)

\* Mutant of FailArm: inverts Success only, a Failure stays a Failure.
FailArmOneWay(self, e) ==
    LET c == event(self.cur, e)
        s == FailState(c.s)
    IN  CASE c.status = Running -> Res(s, Running, c.dt, c.calls)
          [] c.status = Failure -> Res(s, Failure, c.dt, c.calls)
          [] c.status = Success -> Res(s, Failure, c.dt, c.calls)
          [] OTHER -> Res(s, Diverge, 0, c.calls)

FailArm(self, e) ==
    LET c == event(self.cur, e)
        s == FailState(c.s)
    IN  CASE c.status = Running -> Res(s, Running, c.dt, c.calls)
          [] c.status = Failure -> Res(s, Success, c.dt, c.calls)
          [] c.status = Success -> Res(s, Failure, c.dt, c.calls)
          [] OTHER -> Res(s, Diverge, 0, c.calls)

(***************************************************************************)
(* AlwaysSucceedState: ignores failures and always returns Success.        *)
(***************************************************************************)
AlwaysSucceedArm(self, e) ==
    LET c == event(self.cur, e)
        s == AlwaysSucceedState(c.s)
    IN  CASE c.status = Running -> Res(s, Running, c.dt, c.calls)
          [] c.status = Diverge -> Res(s, Diverge, 0, c.calls)
          [] OTHER -> Res(s, Success, c.dt, c.calls)

(***************************************************************************)
(* WaitState, on an event that carries a delta time.                       *)
(***************************************************************************)
\* Mutant of WaitArm: completes only once the wait is exceeded (> for >=).
WaitArmLate(self, e) ==
    LET dt == Unwrap(Update(e))
        wait_t == self.wait_t
        t == self.t
    IN  IF t + dt > wait_t
        THEN Res([self EXCEPT !.t = wait_t], Success, t + dt - wait_t, <<>>)
        ELSE Res([self EXCEPT !.t = t + dt], Running, 0, <<>>)

WaitArm(self, e) ==
    LET dt == Unwrap(Update(e))
        wait_t == self.wait_t
        t == self.t
    IN  IF t + dt >= wait_t
        THEN LET remaining_dt == t + dt - wait_t
             IN  Res([self EXCEPT !.t = wait_t], Success, remaining_dt, <<>>)
        ELSE Res([self EXCEPT !.t = t + dt], RUNNING[1], RUNNING[2], <<>>)

(***************************************************************************)
(* IfState.  The loop of the source runs at most twice: once on the        *)
(* condition (status Running), once on the chosen branch.                  *)
(***************************************************************************)
\* Mutant of IfArm: the chosen branch is advanced with the event the If
\* was given.
IfArmSameEvent(self, e) ==
    LET upd == Update(e)
    IN  IF self.status = Running
        THEN LET c == event(self.state, e)
             IN  IF c.status \in {Running, Diverge}
                 THEN Res([self EXCEPT !.state = c.s], c.status, c.dt, c.calls)
                 ELSE LET branch == IF c.status = Success THEN self.success
                                                          ELSE self.failure
                          b == event(New(branch), e)
                      IN  Res([self EXCEPT !.status = c.status, !.state = b.s],
                              b.status, b.dt, c.calls \o b.calls)
        ELSE LET remaining_dt == UnwrapOr(upd, 0)
                 b == event(self.state, RemainingE(upd, remaining_dt, e))
             IN  Res([self EXCEPT !.state = b.s], b.status, b.dt, b.calls)

\* Mutant of IfArm: once the condition has terminated, every step rebuilds
\* the branch cursor before advancing it.
IfArmRebuilds(self, e) ==
    LET upd == Update(e)
    IN  IF self.status = Running
        THEN LET c == event(self.state, e)
             IN  IF c.status \in {Running, Diverge}
                 THEN Res([self EXCEPT !.state = c.s], c.status, c.dt, c.calls)
                 ELSE LET branch == IF c.status = Success THEN self.success
                                                          ELSE self.failure
                          remaining_dt == c.dt
                          b == event(New(branch), RemainingE(upd, remaining_dt, e))
                      IN  Res([self EXCEPT !.status = c.status, !.state = b.s],
                              b.status, b.dt, c.calls \o b.calls)
        ELSE LET remaining_dt == UnwrapOr(upd, 0)
                 branch == IF self.status = Success THEN self.success
                                                    ELSE self.failure
                 b == event(New(branch), RemainingE(upd, remaining_dt, e))
             IN  Res([self EXCEPT !.state = b.s], b.status, b.dt, b.calls)

IfArm(self, e) ==
    LET upd == Update(e)
    IN  IF self.status = Running
        THEN LET c == event(self.state, e)
             IN  IF c.status \in {Running, Diverge}
                 THEN Res([self EXCEPT !.state = c.s], c.status, c.dt, c.calls)
                 ELSE LET branch == IF c.status = Success THEN self.success
                                                          ELSE self.failure
                          remaining_dt == c.dt
                          b == event(New(branch), RemainingE(upd, remaining_dt, e))
                      IN  Res([self EXCEPT !.status = c.status, !.state = b.s],
                              b.status, b.dt, c.calls \o b.calls)
        ELSE LET remaining_dt == UnwrapOr(upd, 0)
                 b == event(self.state, RemainingE(upd, remaining_dt, e))
             IN  Res([self EXCEPT !.state = b.s], b.status, b.dt, b.calls)

(***************************************************************************)
(* sequence: the algorithm shared by Select and Sequence.  Its source      *)
(* (crate::sequence) is not part of src/; it is modelled from section 4.2  *)
(* of the specification.  A step on a node that has already run past its   *)
(* last child advances nothing and returns (Running, 0).                   *)
(***************************************************************************)
sequence_loop(select, upd, seq, i, cursor, e, remaining_dt, calls) ==
    LET stop == IF select THEN Success ELSE Failure
        cont == IF select THEN Failure ELSE Success
    IN  IF i >= Len(seq)
        THEN [i |-> i, cursor |-> cursor, status |-> Running, dt |-> 0,
              calls |-> calls]
        ELSE LET c == event(cursor, RemainingE(upd, remaining_dt, e))
                 calls2 == calls \o c.calls
             IN  CASE c.status = Running ->
                        [i |-> i, cursor |-> c.s, status |-> Running,
                         dt |-> c.dt, calls |-> calls2]
                   [] c.status = stop ->
                        [i |-> i, cursor |-> c.s, status |-> stop,
                         dt |-> c.dt, calls |-> calls2]
                   [] c.status = cont ->
                        IF i + 1 >= Len(seq)
                        THEN [i |-> i + 1, cursor |-> c.s, status |-> cont,
                              dt |-> c.dt, calls |-> calls2]
                        ELSE IF IsSome(upd)
                             THEN sequence_loop(select, upd, seq, i + 1,
                                                New(seq[i + 2]), e, c.dt, calls2)
                             ELSE [i |-> i + 1, cursor |-> New(seq[i + 2]),
                                   status |-> Running, dt |-> 0,
                                   calls |-> calls2]
                   [] OTHER ->
                        [i |-> i, cursor |-> c.s, status |-> Diverge,
                         dt |-> 0, calls |-> calls2]

sequence(select, upd, seq, i, cursor, e) ==
    sequence_loop(select, upd, seq, i, cursor, e, UnwrapOr(upd, 0), <<>>)

(***************************************************************************)
(* SelectState and SequenceState.                                          *)
(***************************************************************************)
\* Mutant of SelectArm: the flag of Sequence.
SelectArmAsSequence(self, e) ==
    LET select == FALSE
        r == sequence(select, Update(e), self.seq, self.i, self.cursor, e)
    IN  Res([self EXCEPT !.i = r.i, !.cursor = r.cursor], r.status, r.dt, r.calls)

SelectArm(self, e) ==
    LET select == TRUE
        r == sequence(select, Update(e), self.seq, self.i, self.cursor, e)
    IN  Res([self EXCEPT !.i = r.i, !.cursor = r.cursor], r.status, r.dt, r.calls)

\* Mutant of SequenceArm: the flag of Select.
SequenceArmAsSelect(self, e) ==
    LET select == TRUE
        r == sequence(select, Update(e), self.seq, self.i, self.cursor, e)
    IN  Res([self EXCEPT !.i = r.i, !.cursor = r.cursor], r.status, r.dt, r.calls)

SequenceArm(self, e) ==
    LET select == FALSE
        r == sequence(select, Update(e), self.seq, self.i, self.cursor, e)
    IN  Res([self EXCEPT !.i = r.i, !.cursor = r.cursor], r.status, r.dt, r.calls)

(***************************************************************************)
(* WhileState.  seen holds the loop states <<index, remaining dt>> at      *)
(* which the body cursor was freshly rebuilt in this call.  The callback   *)
(* is a function of its arguments, so a loop state met twice is met        *)
(* forever: the call does not return.                                      *)
(***************************************************************************)
\* Mutant of WhileLoop: a Running body child's delta time is passed on.
WhileLoopPassesDt(self, e, remaining_dt, calls, seen) ==
    LET upd == Update(e)
        b == event(self.cursor, RemainingE(upd, remaining_dt, e))
        self1 == [self EXCEPT !.cursor = b.s]
        calls2 == calls \o b.calls
    IN  CASE b.status = Failure -> Res(self1, Failure, b.dt, calls2)
          [] b.status = Running -> Res(self1, Running, b.dt, calls2)
          [] b.status = Success ->
                IF upd = None
                THEN Res(self1, RUNNING[1], RUNNING[2], calls2)
                ELSE LET new_dt == b.dt
                         i2 == IF self.i + 1 >= Len(self.rep) THEN 0
                                                              ELSE self.i + 1
                         self2 == [self1 EXCEPT !.i = i2,
                                                !.cursor = New(self.rep[i2 + 1])]
                     IN  IF <<i2, new_dt>> \in seen
                         THEN Res(self2, Diverge, 0, calls2)
                         ELSE WhileLoop(self2, e, new_dt, calls2,
                                        seen \cup {<<i2, new_dt>>})
          [] OTHER -> Res(self1, Diverge, 0, calls2)

\* Mutant of WhileLoop: after a success the body starts over from its
\* first child.
WhileLoopRestarts(self, e, remaining_dt, calls, seen) ==
    LET upd == Update(e)
        b == event(self.cursor, RemainingE(upd, remaining_dt, e))
        self1 == [self EXCEPT !.cursor = b.s]
        calls2 == calls \o b.calls
    IN  CASE b.status = Failure -> Res(self1, Failure, b.dt, calls2)
          [] b.status = Running -> Res(self1, RUNNING[1], RUNNING[2], calls2)
          [] b.status = Success ->
                IF upd = None
                THEN Res(self1, RUNNING[1], RUNNING[2], calls2)
                ELSE LET new_dt == b.dt
                         i2 == 0
                         self2 == [self1 EXCEPT !.i = i2,
                                                !.cursor = New(self.rep[i2 + 1])]
                     IN  IF <<i2, new_dt>> \in seen
                         THEN Res(self2, Diverge, 0, calls2)
                         ELSE WhileLoop(self2, e, new_dt, calls2,
                                        seen \cup {<<i2, new_dt>>})
          [] OTHER -> Res(self1, Diverge, 0, calls2)

WhileLoop(self, e, remaining_dt, calls, seen) ==
    LET upd == Update(e)
        b == event(self.cursor, RemainingE(upd, remaining_dt, e))
        self1 == [self EXCEPT !.cursor = b.s]
        calls2 == calls \o b.calls
    IN  CASE b.status = Failure -> Res(self1, Failure, b.dt, calls2)
          [] b.status = Running -> Res(self1, RUNNING[1], RUNNING[2], calls2)
          [] b.status = Success ->
                IF upd = None
                THEN Res(self1, RUNNING[1], RUNNING[2], calls2)
                ELSE LET new_dt == b.dt
                         i2 == IF self.i + 1 >= Len(self.rep) THEN 0
                                                              ELSE self.i + 1
                         self2 == [self1 EXCEPT !.i = i2,
                                                !.cursor = New(self.rep[i2 + 1])]
                     IN  IF <<i2, new_dt>> \in seen
                         THEN Res(self2, Diverge, 0, calls2)
                         ELSE WhileLoop(self2, e, new_dt, calls2,
                                        seen \cup {<<i2, new_dt>>})
          [] OTHER -> Res(self1, Diverge, 0, calls2)

\* Mutant of WhileArm: the body loop runs whatever the condition returned.
WhileArmRunsBody(self, e) ==
    LET upd == Update(e)
        x == event(self.ev_cursor, e)
        self1 == [self EXCEPT !.ev_cursor = x.s]
    IN  WhileLoop(self1, e, UnwrapOr(upd, 0), x.calls, {})

WhileArm(self, e) ==
    LET upd == Update(e)
        x == event(self.ev_cursor, e)
        self1 == [self EXCEPT !.ev_cursor = x.s]
    IN  IF x.status # Running
        THEN Res(self1, x.status, x.dt, x.calls)
        ELSE WhileLoop(self1, e, UnwrapOr(upd, 0), x.calls, {})

(***************************************************************************)
(* when_all: the algorithm shared by WhenAll and WhenAny.  Its source      *)
(* (crate::when_all) is not part of src/; it is modelled from section 4.2  *)
(* of the specification.  The running minimum starts at f64::MAX, as in    *)
(* the After arm.                                                          *)
(***************************************************************************)
when_all_loop(any, slots, e, k, min_dt, calls) ==
    LET shortCircuit == IF any THEN Success ELSE Failure
        settle == IF any THEN Failure ELSE Success
    IN  IF k > Len(slots)
        THEN IF \A j \in 1..Len(slots) : slots[j] = None
             THEN [slots |-> slots, status |-> settle, dt |-> min_dt,
                   calls |-> calls]
             ELSE [slots |-> slots, status |-> Running, dt |-> 0,
                   calls |-> calls]
        ELSE IF slots[k] = None
        THEN when_all_loop(any, slots, e, k + 1, min_dt, calls)
        ELSE LET c == event(Unwrap(slots[k]), e)
                 calls2 == calls \o c.calls
             IN  CASE c.status = shortCircuit ->
                        [slots |-> [slots EXCEPT ![k] = Some(c.s)],
                         status |-> shortCircuit, dt |-> c.dt, calls |-> calls2]
                   [] c.status = settle ->
                        when_all_loop(any, [slots EXCEPT ![k] = None], e, k + 1,
                                      Min(min_dt, c.dt), calls2)
                   [] c.status = Running ->
                        when_all_loop(any, [slots EXCEPT ![k] = Some(c.s)], e,
                                      k + 1, min_dt, calls2)
                   [] OTHER ->
                        [slots |-> [slots EXCEPT ![k] = Some(c.s)],
                         status |-> Diverge, dt |-> 0, calls |-> calls2]

when_all(any, upd, cursors, e) ==
    when_all_loop(any, cursors, e, 1, F64MAX, <<>>)

(***************************************************************************)
(* WhenAllState and WhenAnyState.                                          *)
(***************************************************************************)
\* Mutant of WhenAllArm: the flag of WhenAny.
WhenAllArmAsAny(self, e) ==
    LET any == TRUE
        r == when_all(any, Update(e), self.slots, e)
    IN  Res([self EXCEPT !.slots = r.slots], r.status, r.dt, r.calls)

WhenAllArm(self, e) ==
    LET any == FALSE
        r == when_all(any, Update(e), self.slots, e)
    IN  Res([self EXCEPT !.slots = r.slots], r.status, r.dt, r.calls)

\* Mutant of WhenAnyArm: the flag of WhenAll.
WhenAnyArmAsAll(self, e) ==
    LET any == FALSE
        r == when_all(any, Update(e), self.slots, e)
    IN  Res([self EXCEPT !.slots = r.slots], r.status, r.dt, r.calls)

WhenAnyArm(self, e) ==
    LET any == TRUE
        r == when_all(any, Update(e), self.slots, e)
    IN  Res([self EXCEPT !.slots = r.slots], r.status, r.dt, r.calls)

(***************************************************************************)
(* AfterState.  j runs over  *i..cursors.len() , the range fixed when the  *)
(* loop starts; self.i is the frontier *i.                                 *)
(***************************************************************************)
\* Mutant of AfterLoop: a Success with a leftover dt equal to the least one
\* seen advances the frontier too (<= for <).
AfterLoopLe(self, e, j, min_dt, calls) ==
    IF j >= Len(self.cursors)
    THEN IF self.i = Len(self.cursors)
         THEN Res(self, Success, min_dt, calls)
         ELSE Res(self, Running, 0, calls)
    ELSE LET c == event(self.cursors[j + 1], e)
             self1 == [self EXCEPT !.cursors[j + 1] = c.s]
             calls2 == calls \o c.calls
             new_dt == c.dt
         IN  CASE c.status = Running ->
                    AfterLoopLe(self1, e, j + 1, 0, calls2)
               [] c.status = Success ->
                    IF self.i = j /\ new_dt <= min_dt
                    THEN AfterLoopLe([self1 EXCEPT !.i = self.i + 1], e, j + 1,
                                     new_dt, calls2)
                    ELSE Res(self1, Failure, Min(min_dt, new_dt), calls2)
               [] c.status = Failure -> Res(self1, Failure, new_dt, calls2)
               [] OTHER -> Res(self1, Diverge, 0, calls2)

AfterLoop(self, e, j, min_dt, calls) ==
    IF j >= Len(self.cursors)
    THEN IF self.i = Len(self.cursors)
         THEN Res(self, Success, min_dt, calls)
         ELSE Res(self, RUNNING[1], RUNNING[2], calls)
    ELSE LET c == event(self.cursors[j + 1], e)
             self1 == [self EXCEPT !.cursors[j + 1] = c.s]
             calls2 == calls \o c.calls
             new_dt == c.dt
         IN  CASE c.status = Running ->
                    AfterLoop(self1, e, j + 1, 0, calls2)
               [] c.status = Success ->
                    IF self.i = j /\ new_dt < min_dt
                    THEN AfterLoop([self1 EXCEPT !.i = self.i + 1], e, j + 1,
                                   new_dt, calls2)
                    ELSE Res(self1, Failure, Min(min_dt, new_dt), calls2)
               [] c.status = Failure -> Res(self1, Failure, new_dt, calls2)
               [] OTHER -> Res(self1, Diverge, 0, calls2)

AfterArm(self, e) ==
    LET min_dt == F64MAX
    IN  AfterLoop(self, e, self.i, min_dt, <<>>)

(***************************************************************************)
(* State::event: updates the cursor that tracks an event.  The last case   *)
(* is the default arm  _ => RUNNING  (WaitForeverState, and WaitState on   *)
(* an event without delta time).                                           *)
(***************************************************************************)
\* Mutant of event: the WaitState arm matches every event, an event
\* without delta time counting as 0.
eventWaitOnAny(self, e) ==
    CASE self.tag = "ActionState" -> ActionArm(self, e)
      [] self.tag = "FailState" -> FailArm(self, e)
      [] self.tag = "AlwaysSucceedState" -> AlwaysSucceedArm(self, e)
      [] self.tag = "WaitState" -> WaitArm(self, UpdateEv(UnwrapOr(Update(e), 0)))
      [] self.tag = "IfState" -> IfArm(self, e)
      [] self.tag = "SelectState" -> SelectArm(self, e)
      [] self.tag = "SequenceState" -> SequenceArm(self, e)
      [] self.tag = "WhileState" -> WhileArm(self, e)
      [] self.tag = "WhenAllState" -> WhenAllArm(self, e)
      [] self.tag = "WhenAnyState" -> WhenAnyArm(self, e)
      [] self.tag = "AfterState" -> AfterArm(self, e)
      [] OTHER -> Res(self, RUNNING[1], RUNNING[2], <<>>)

event(self, e) ==
    CASE self.tag = "ActionState" -> ActionArm(self, e)
      [] self.tag = "FailState" -> FailArm(self, e)
      [] self.tag = "AlwaysSucceedState" -> AlwaysSucceedArm(self, e)
      [] self.tag = "WaitState" /\ IsSome(Update(e)) -> WaitArm(self, e)
      [] self.tag = "IfState" -> IfArm(self, e)
      [] self.tag = "SelectState" -> SelectArm(self, e)
      [] self.tag = "SequenceState" -> SequenceArm(self, e)
      [] self.tag = "WhileState" -> WhileArm(self, e)
      [] self.tag = "WhenAllState" -> WhenAllArm(self, e)
      [] self.tag = "WhenAnyState" -> WhenAnyArm(self, e)
      [] self.tag = "AfterState" -> AfterArm(self, e)
      [] OTHER -> Res(self, RUNNING[1], RUNNING[2], <<>>)

(***************************************************************************)
(* The behaviors the model runs: every leaf; the unary combinators over    *)
(* the leaves, once and twice; every composite whose children are leaves,  *)
(* with up to MaxLen children; and a few deeper trees.                     *)
(***************************************************************************)
Leaf ==
    {Action(a) : a \in {"Inc", "Flop", "Idle", "Work"}}
    \cup {Wait(d) : d \in 0..MaxWait} \cup {WaitForever}

\* The children of lists of more than two children.
LeafCore == {Action("Inc"), Action("Flop"), Wait(1), WaitForever}

Lists(lo) ==
    UNION {[1..n -> IF n <= 2 THEN Leaf ELSE LeafCore] : n \in lo..MaxLen}

\* tests::test_bt_tick
TestSeq == Sequence(<<Action("Inc"), Action("Dec"), Action("Inc")>>)

Deeper ==
    { TestSeq,
      Sequence(<<Sequence(<<Action("Inc"), Wait(1)>>), Action("Dec"), Wait(1)>>),
      Select(<<Fail(Action("Inc")), Sequence(<<Wait(1), Action("Flop")>>), Wait(1)>>),
      Sequence(<<While(Wait(1), <<Action("Inc")>>), Action("Dec")>>),
      While(WaitForever, <<If(Action("Work"), Wait(1), Wait(2)), Action("Inc")>>),
      If(Sequence(<<Wait(1), Action("Inc")>>), WhenAll(<<Wait(1), Wait(2)>>),
         After(<<Wait(1), Wait(2)>>)),
      WhenAll(<<WhenAny(<<Wait(1), Wait(2)>>), Fail(Wait(2)), Action("Work")>>),
      WhenAny(<<WaitForever, Sequence(<<Wait(1), Wait(1)>>)>>),
      After(<<Wait(1), Sequence(<<Wait(1), Wait(1)>>)>>),
      After(<<AlwaysSucceed(Action("Flop")), Fail(Wait(1))>>) }

Behaviors ==
    Leaf
    \cup {Fail(b) : b \in Leaf} \cup {AlwaysSucceed(b) : b \in Leaf}
    \cup {Fail(Fail(b)) : b \in Leaf}
    \cup {AlwaysSucceed(AlwaysSucceed(b)) : b \in Leaf}
    \cup {If(c, s, f) : c \in Leaf, s \in Leaf, f \in Leaf}
    \cup {Select(l) : l \in Lists(1)}
    \cup {Sequence(l) : l \in Lists(1)}
    \cup {While(c, l) : c \in Leaf, l \in Lists(1)}
    \cup {WhenAll(l) : l \in Lists(0)}
    \cup {WhenAny(l) : l \in Lists(0)}
    \cup {After(l) : l \in Lists(0)}
    \cup Deeper

(***************************************************************************)
(* The state of a run: the behavior the host owns, the cursor built from   *)
(* it, and what the last operation on the cursor did.  A host may run a    *)
(* second cursor side by side with the first (twin).                       *)
(***************************************************************************)
VARIABLES
    behavior,   \* the Behavior tree, never changed
    state,      \* the cursor
    op,         \* the last operation: "new", "tick" or "event"
    ev,         \* Some(the event of the last step), None after "new"
    pre,        \* Some(the cursor before the last step), None after "new"
    result,     \* Some(<<status, dt>> returned by self.event in the last step)
    calls,      \* the calls of the callback in the last step, in order
    ret,        \* what the last operation returned to its caller
    twin,       \* Some(the second cursor), None when the host runs only one
    twinResult  \* Some(<<status, dt>> of the second cursor's last step)

vars == <<behavior, state, op, ev, pre, result, calls, ret, twin, twinResult>>

InitOn(b) ==
    /\ behavior = b
    /\ state = New(b)
    /\ op = "new"
    /\ ev = None
    /\ pre = None
    /\ result = None
    /\ calls = <<>>
    /\ ret = None

Init ==
    /\ \E b \in Behaviors : InitOn(b)
    /\ twin = None
    /\ twinResult = None

\* A call of event that does not return leaves the program inside it.
Hung == result # None /\ result[1][1] = Diverge

(***************************************************************************)
(* State::tick: builds the update event from dt, calls event and returns   *)
(* the unit value.                                                         *)
(***************************************************************************)
tick(self, dt) ==
    LET e == UpdateEv(dt)
    IN  [e |-> e, r |-> event(self, e), ret |-> None]

Tick(dt) ==
    /\ ~Hung
    /\ LET t == tick(state, dt)
       IN  /\ state' = t.r.s
           /\ op' = "tick"
           /\ ev' = Some(t.e)
           /\ pre' = Some(state)
           /\ result' = Some(<<t.r.status, t.r.dt>>)
           /\ calls' = t.r.calls
           /\ ret' = t.ret
    /\ UNCHANGED <<behavior, twin, twinResult>>

(***************************************************************************)
(* State::event called by the host with an event of its own.               *)
(***************************************************************************)
Event(e) ==
    /\ ~Hung
    /\ LET r == event(state, e)
       IN  /\ state' = r.s
           /\ op' = "event"
           /\ ev' = Some(e)
           /\ pre' = Some(state)
           /\ result' = Some(<<r.status, r.dt>>)
           /\ calls' = r.calls
           /\ ret' = Some(<<r.status, r.dt>>)
    /\ UNCHANGED <<behavior, twin, twinResult>>

Next ==
    \/ \E dt \in 0..MaxDt : Tick(dt)
    \/ \E e \in Events : Event(e)

Spec == Init /\ [][Next]_vars

(***************************************************************************)
(* Runs of a single Wait(total) cursor, fed delta times up to MaxFeed.     *)
(***************************************************************************)
InitWait ==
    /\ \E total \in 0..MaxTotal : InitOn(Wait(total))
    /\ twin = None
    /\ twinResult = None

NextWait ==
    \/ \E dt \in 0..MaxFeed : Tick(dt)
    \/ \E dt \in 0..MaxFeed : Event(UpdateEv(dt))
    \/ Event(InputEv)

SpecWait == InitWait /\ [][NextWait]_vars

\* The last operation was a step, and its event carried a delta time.
TimeStep == pre # None /\ IsSome(Update(Unwrap(ev)))
\* The last operation was a step on a discrete event.
InputStep == pre # None /\ Update(Unwrap(ev)) = None

(***************************************************************************)
(* C1.  Wait exactness: a step of a Wait(total) cursor on an event with    *)
(* delta time dt adds dt to elapsed and returns (Running, 0) while         *)
(* elapsed + dt < total, and sets elapsed = total and returns              *)
(* (Success, elapsed + dt - total) once elapsed + dt >= total.  Wait(5)    *)
(* fed 2 then 3 returns (Running, 0) then (Success, 0); fed 7 from fresh   *)
(* it returns (Success, 2).                                                *)
(***************************************************************************)
C1_WaitExact ==
    (behavior.tag = "Wait" /\ TimeStep) =>
        LET total == behavior.dt
            elapsed == Unwrap(pre).t
            dt == Unwrap(ev).dt
        IN  /\ Unwrap(pre).wait_t = total
            /\ elapsed + dt < total =>
                    /\ state = WaitState(total, elapsed + dt)
                    /\ result = Some(<<Running, 0>>)
            /\ elapsed + dt >= total =>
                    /\ state = WaitState(total, total)
                    /\ result = Some(<<Success, elapsed + dt - total>>)
            /\ (total = 5 /\ elapsed = 0 /\ dt = 2) =>
                    state.t = 2 /\ result = Some(<<Running, 0>>)
            /\ (total = 5 /\ elapsed = 2 /\ dt = 3) =>
                    result = Some(<<Success, 0>>)
            /\ (total = 5 /\ elapsed = 0 /\ dt = 7) =>
                    result = Some(<<Success, 2>>)

\* Wait(5), fed 2 and then 3, has just completed with nothing left over.
C1_Witness ==
    /\ behavior = Wait(5)
    /\ pre = Some(WaitState(5, 2))
    /\ ev = Some(UpdateEv(3))
    /\ state = WaitState(5, 5)
    /\ result = Some(<<Success, 0>>)

(***************************************************************************)
(* C2.  Chaining law: when a Sequence whose current child X is followed by *)
(* its last child Y is stepped with an event carrying delta time, and X    *)
(* stepped alone with that event succeeds with leftover r, then the        *)
(* Sequence returns what a freshly built cursor for Y returns on a time    *)
(* event carrying r, its nested cursor is that cursor of Y after the       *)
(* step, and the callback is called as by X and then by Y: r is handed to  *)
(* Y once, and what Y leaves is what the Sequence returns.                 *)
(***************************************************************************)
C2_Chaining ==
    (TimeStep /\ Unwrap(pre).tag = "SequenceState"
              /\ Len(Unwrap(pre).seq) = Unwrap(pre).i + 2) =>
        LET p == Unwrap(pre)
            x == event(p.cursor, Unwrap(ev))
        IN  x.status = Success =>
                LET r == x.dt
                    y == event(New(p.seq[p.i + 2]), UpdateEv(r))
                IN  /\ result = Some(<<y.status, y.dt>>)
                    /\ state.cursor = y.s
                    /\ calls = x.calls \o y.calls

\* Sequence([Wait(1), Wait(2)]) fed 2 from fresh: Wait(1) leaves 1, which
\* Wait(2) takes in the same step.
C2_Witness ==
    /\ behavior = Sequence(<<Wait(1), Wait(2)>>)
    /\ pre = Some(New(behavior))
    /\ ev = Some(UpdateEv(2))
    /\ state.cursor = WaitState(2, 1)
    /\ state.i = 1
    /\ result = Some(<<Running, 0>>)

(***************************************************************************)
(* C3.  Select stops on the first Success, Sequence on the first Failure:  *)
(* when the current child returns that status, the node returns it with    *)
(* the child's leftover dt in the same step, the index stays, the nested   *)
(* cursor is the stepped child's (no cursor is built for a later child),   *)
(* and the callback is called by that child only.                          *)
(***************************************************************************)
C3_StopsOnFirst ==
    (pre # None /\ Unwrap(pre).tag \in {"SelectState", "SequenceState"}
                /\ Unwrap(pre).i < Len(Unwrap(pre).seq)) =>
        LET p == Unwrap(pre)
            stop == IF p.tag = "SelectState" THEN Success ELSE Failure
            c == event(p.cursor, Unwrap(ev))
        IN  c.status = stop =>
                /\ result = Some(<<stop, c.dt>>)
                /\ state = [p EXCEPT !.cursor = c.s]
                /\ calls = c.calls

\* Select([Inc, Flop]) fed 3: Inc succeeds, Flop is never called.
C3_Witness ==
    /\ behavior = Select(<<Action("Inc"), Action("Flop")>>)
    /\ ev = Some(UpdateEv(3))
    /\ result = Some(<<Success, 3>>)
    /\ calls = << <<"Inc", 3, UpdateEv(3)>> >>
    /\ state.i = 0
    /\ state.cursor = ActionState("Inc", None)

\* The children of a Sequence are all actions that the callback completes
\* at once, handing back the delta time it was given.
InstantActions(b) ==
    /\ b.tag = "Sequence"
    /\ \A k \in 1..Len(b.seq) :
            b.seq[k].tag = "Action" /\ b.seq[k].action \in {"Inc", "Dec"}

(***************************************************************************)
(* C4.  A fresh Sequence of actions that complete at once, stepped once    *)
(* through tick(dt) (dt = 0 included): the callback is called exactly once *)
(* for every child, in list order, each time with dt, within that step,    *)
(* and the Sequence ends with Success and the last child's leftover dt.    *)
(***************************************************************************)
C4_TickRunsAll ==
    (op = "tick" /\ pre = Some(New(behavior)) /\ InstantActions(behavior)) =>
        LET dt == Unwrap(ev).dt
            n == Len(behavior.seq)
        IN  /\ calls = [k \in 1..n |-> <<behavior.seq[k].action, dt, UpdateEv(dt)>>]
            /\ result = Some(<<Success, dt>>)
            /\ state.i = n

\* tests::test_bt_tick: the Sequence of Inc, Dec, Inc after state.tick(0.0).
C4_Witness ==
    /\ behavior = TestSeq
    /\ op = "tick"
    /\ pre = Some(New(behavior))
    /\ ev = Some(UpdateEv(0))
    /\ calls = << <<"Inc", 0, UpdateEv(0)>>, <<"Dec", 0, UpdateEv(0)>>,
                 <<"Inc", 0, UpdateEv(0)>> >>
    /\ result = Some(<<Success, 0>>)

(***************************************************************************)
(* Two cursors stepped side by side with the same events: one for          *)
(* Sequence([A, B]) and one for Select([Fail(A), Fail(B)]).                *)
(***************************************************************************)
DualKids ==
    Leaf \cup
    { Action("Dec"),
      Sequence(<<Wait(1), Action("Flop")>>),
      Select(<<Action("Flop"), Wait(1)>>),
      Fail(Wait(1)),
      If(Action("Work"), Wait(1), Action("Flop")),
      While(Wait(2), <<Wait(1), Action("Inc")>>),
      While(Wait(1), <<Action("Inc")>>),
      WhenAll(<<Wait(1), Action("Work")>>),
      After(<<Wait(1), Wait(2)>>) }

InitDual ==
    \E A \in DualKids, B \in DualKids :
        /\ InitOn(Sequence(<<A, B>>))
        /\ twin = Some(New(Select(<<Fail(A), Fail(B)>>)))
        /\ twinResult = None

DualStep(e, how) ==
    /\ ~Hung
    /\ LET r == event(state, e)
           t == event(Unwrap(twin), e)
       IN  /\ state' = r.s
           /\ op' = how
           /\ ev' = Some(e)
           /\ pre' = Some(state)
           /\ result' = Some(<<r.status, r.dt>>)
           /\ calls' = r.calls
           /\ ret' = IF how = "tick" THEN None ELSE Some(<<r.status, r.dt>>)
           /\ twin' = Some(t.s)
           /\ twinResult' = Some(<<t.status, t.dt>>)
    /\ UNCHANGED behavior

DualTick(dt) == DualStep(tick(state, dt).e, "tick")

DualEvent(e) == DualStep(e, "event")

NextDual ==
    \/ \E dt \in 0..MaxDt : DualTick(dt)
    \/ \E e \in Events : DualEvent(e)

SpecDual == InitDual /\ [][NextDual]_vars

\* Success and Failure swapped; Running stays (and so does a call that
\* never returns).
Swap(status) ==
    CASE status = Success -> Failure
      [] status = Failure -> Success
      [] OTHER -> status

(***************************************************************************)
(* C5.  Select/Sequence duality: a cursor for Sequence([A, B]) and one for *)
(* Select([Fail(A), Fail(B)]), stepped side by side with the same events,  *)
(* return at every step statuses equal up to the swap of Success and       *)
(* Failure and equal leftover dt, and keep the same current child index.   *)
(***************************************************************************)
C5_Duality ==
    /\ Unwrap(twin).i = state.i
    /\ pre # None =>
            /\ Unwrap(twinResult)[1] = Swap(Unwrap(result)[1])
            /\ Unwrap(twinResult)[2] = Unwrap(result)[2]

\* Sequence([Inc, Wait(1)]) fed 3 succeeds with 2 left, and
\* Select([Fail(Inc), Fail(Wait(1))]) fails with 2 left, both past child 1.
C5_Witness ==
    /\ behavior = Sequence(<<Action("Inc"), Wait(1)>>)
    /\ ev = Some(UpdateEv(3))
    /\ result = Some(<<Success, 2>>)
    /\ twinResult = Some(<<Failure, 2>>)
    /\ state.i = 2
    /\ Unwrap(twin).i = 2

(***************************************************************************)
(* C6.  Fail(Fail(X)) stepped returns the status and the leftover dt that  *)
(* X stepped returns, and AlwaysSucceed(AlwaysSucceed(X)) stepped returns  *)
(* what AlwaysSucceed(X) stepped returns: in the runs of such behaviors,   *)
(* and for every reachable cursor put in the place of X, on every event.   *)
(***************************************************************************)
SameReturn(a, b) == a.status = b.status /\ a.dt = b.dt

C6_Involution ==
    /\ (pre # None /\ behavior.tag = "Fail" /\ behavior.child.tag = "Fail") =>
            LET x == event(Unwrap(pre).cur.cur, Unwrap(ev))
            IN  /\ result = Some(<<x.status, x.dt>>)
                /\ state = FailState(FailState(x.s))
                /\ calls = x.calls
    /\ (pre # None /\ behavior.tag = "AlwaysSucceed"
                   /\ behavior.child.tag = "AlwaysSucceed") =>
            LET a == event(Unwrap(pre).cur, Unwrap(ev))
            IN  /\ result = Some(<<a.status, a.dt>>)
                /\ state = AlwaysSucceedState(a.s)
                /\ calls = a.calls
    /\ ~Hung =>
            \A e \in Events :
                /\ SameReturn(event(FailState(FailState(state)), e),
                              event(state, e))
                /\ SameReturn(event(AlwaysSucceedState(AlwaysSucceedState(state)), e),
                              event(AlwaysSucceedState(state), e))

\* Fail(Fail(Flop)) fed 2 fails with 2 left, as Flop does.
C6_Witness ==
    /\ behavior = Fail(Fail(Action("Flop")))
    /\ ev = Some(UpdateEv(2))
    /\ result = Some(<<Failure, 2>>)
    /\ event(New(Action("Flop")), UpdateEv(2)).status = Failure

\* The calls of the callback made by the present branches 1..k of a
\* WhenAll/WhenAny, each stepped with e.
RECURSIVE BranchCalls(_, _, _)
BranchCalls(slots, e, k) ==
    IF k = 0 THEN <<>>
    ELSE BranchCalls(slots, e, k - 1)
         \o (IF slots[k] = None THEN <<>> ELSE event(Unwrap(slots[k]), e).calls)

(***************************************************************************)
(* C7.  WhenAll returns Failure (WhenAny: Success) in the very step in     *)
(* which a present branch returns it, with that branch's leftover dt,      *)
(* whatever the other branches do.  The slot of that branch stays present, *)
(* the slots after it are untouched (those branches are not advanced and   *)
(* their actions not called in that step); the branches before it have     *)
(* been advanced, and those that settled in this step retired.             *)
(***************************************************************************)
C7_ShortCircuit ==
    (pre # None /\ Unwrap(pre).tag \in {"WhenAllState", "WhenAnyState"}) =>
        LET p == Unwrap(pre)
            e == Unwrap(ev)
            n == Len(p.slots)
            short == IF p.tag = "WhenAllState" THEN Failure ELSE Success
            c(j) == event(Unwrap(p.slots[j]), e)
            Hit == {j \in 1..n : p.slots[j] # None /\ c(j).status = short}
        IN  Hit # {} =>
                LET k == CHOOSE j \in Hit : \A m \in Hit : j <= m
                IN  (\A j \in 1..(k - 1) :
                        p.slots[j] # None => c(j).status # Diverge) =>
                    /\ result = Some(<<short, c(k).dt>>)
                    /\ state.slots[k] = Some(c(k).s)
                    /\ \A j \in (k + 1)..n : state.slots[j] = p.slots[j]
                    /\ \A j \in 1..(k - 1) :
                            state.slots[j] =
                                IF p.slots[j] # None /\ c(j).status = Running
                                THEN Some(c(j).s) ELSE None
                    /\ calls = BranchCalls(p.slots, e, k)

\* WhenAll([WaitForever, Flop]) fed 3 fails at once with 3 left, the
\* WaitForever branch still present and running.
C7_Witness ==
    /\ behavior = WhenAll(<<WaitForever, Action("Flop")>>)
    /\ ev = Some(UpdateEv(3))
    /\ result = Some(<<Failure, 3>>)
    /\ state.slots = <<Some(WaitForeverState), Some(ActionState("Flop", None))>>

\* The least element of a non-empty set of numbers.
Least(S) == CHOOSE x \in S : \A y \in S : x <= y

(***************************************************************************)
(* C8.  After succeeds only when its children succeed in list order.  In   *)
(* one step every child from the frontier on is stepped with the event;    *)
(* a child's Success advances the frontier exactly when it is the frontier *)
(* child and its leftover dt is strictly less than the least leftover seen *)
(* so far in the step (a Running child counts as 0); the first Failure, or *)
(* the first Success that does not advance the frontier, makes the node    *)
(* return Failure, with the child's dt, respectively the smaller of the    *)
(* least seen and the child's.  After([Wait(1), Wait(2)]) fed 3 returns    *)
(* (Success, 1); After([Wait(2), Wait(1)]) and After([Wait(1), Wait(1)])   *)
(* fed 3 return Failure.                                                   *)
(***************************************************************************)
C8_AfterOrder ==
    /\ (pre # None /\ Unwrap(pre).tag = "AfterState") =>
        LET p == Unwrap(pre)
            e == Unwrap(ev)
            n == Len(p.cursors)
            i0 == p.i
            c(j) == event(p.cursors[j + 1], e)
            Adv(j) == \A m \in i0..j :
                        /\ c(m).status = Success
                        /\ c(m).dt < (IF m = i0 THEN F64MAX ELSE c(m - 1).dt)
            Seen(j) == Least({F64MAX} \cup
                             {IF c(m).status = Running THEN 0 ELSE c(m).dt :
                                  m \in i0..(j - 1)})
            Stops == {j \in i0..(n - 1) :
                        \/ c(j).status = Failure
                        \/ c(j).status = Success /\ ~Adv(j)}
        IN  (\A j \in i0..(n - 1) : c(j).status # Diverge) =>
                IF Stops # {}
                THEN LET k == Least(Stops)
                     IN  /\ result =
                                Some(<<Failure,
                                       IF c(k).status = Failure THEN c(k).dt
                                       ELSE Min(Seen(k), c(k).dt)>>)
                         /\ state.i = i0 + Cardinality({j \in i0..(k - 1) : Adv(j)})
                ELSE /\ state.i = i0 + Cardinality({j \in i0..(n - 1) : Adv(j)})
                     /\ result = IF state.i = n THEN Some(<<Success, Seen(n)>>)
                                                ELSE Some(<<Running, 0>>)
    /\ (pre = Some(New(behavior)) /\ ev = Some(UpdateEv(3))) =>
            /\ behavior = After(<<Wait(1), Wait(2)>>) => result = Some(<<Success, 1>>)
            /\ behavior = After(<<Wait(2), Wait(1)>>) => Unwrap(result)[1] = Failure
            /\ behavior = After(<<Wait(1), Wait(1)>>) => Unwrap(result)[1] = Failure

\* After([Wait(1), Wait(2)]) fed 3 from fresh: both gates pass in order.
C8_Witness ==
    /\ behavior = After(<<Wait(1), Wait(2)>>)
    /\ pre = Some(New(behavior))
    /\ ev = Some(UpdateEv(3))
    /\ result = Some(<<Success, 1>>)
    /\ state.i = 2

\* The cursor s is the one built for b, in its initial bookkeeping state.
RECURSIVE Built(_, _)
Built(b, s) ==
    CASE b.tag = "Action" ->
            s.tag = "ActionState" /\ s.action = b.action /\ s.local = None
      [] b.tag = "Fail" -> s.tag = "FailState" /\ Built(b.child, s.cur)
      [] b.tag = "AlwaysSucceed" ->
            s.tag = "AlwaysSucceedState" /\ Built(b.child, s.cur)
      [] b.tag = "Wait" -> s.tag = "WaitState" /\ s.wait_t = b.dt /\ s.t = 0
      [] b.tag = "WaitForever" -> s.tag = "WaitForeverState"
      [] b.tag = "If" ->
            /\ s.tag = "IfState" /\ s.status = Running
            /\ s.success = b.success /\ s.failure = b.failure
            /\ Built(b.condition, s.state)
      [] b.tag \in {"Select", "Sequence"} ->
            /\ s.tag = (IF b.tag = "Select" THEN "SelectState" ELSE "SequenceState")
            /\ s.seq = b.seq /\ s.i = 0
            /\ Built(b.seq[1], s.cursor)
      [] b.tag = "While" ->
            /\ s.tag = "WhileState" /\ s.rep = b.rep /\ s.i = 0
            /\ Built(b.ev, s.ev_cursor)
            /\ Built(b.rep[1], s.cursor)
      [] b.tag \in {"WhenAll", "WhenAny"} ->
            /\ s.tag = (IF b.tag = "WhenAll" THEN "WhenAllState" ELSE "WhenAnyState")
            /\ Len(s.slots) = Len(b.all)
            /\ \A k \in 1..Len(b.all) :
                    s.slots[k] # None /\ Built(b.all[k], Unwrap(s.slots[k]))
      [] b.tag = "After" ->
            /\ s.tag = "AfterState" /\ s.i = 0
            /\ Len(s.cursors) = Len(b.seq)
            /\ \A k \in 1..Len(b.seq) : Built(b.seq[k], s.cursors[k])
      [] OTHER -> FALSE

(***************************************************************************)
(* C9.  Construction parity: the cursor State::new builds for a behavior   *)
(* has the variant of the behavior's variant, in its initial bookkeeping   *)
(* state (Action: empty state slot; Wait: elapsed 0; If: status Running    *)
(* and a cursor over the condition; Select/Sequence/While: index 0 and a   *)
(* cursor for child 0; WhenAll/WhenAny: one present slot per branch;       *)
(* After: frontier 0 and one cursor per child), and so on down the tree;   *)
(* building it calls no callback.                                          *)
(***************************************************************************)
C9_Parity ==
    op = "new" => Built(behavior, state) /\ calls = <<>>

\* A freshly built If over composite subtrees.
C9_Witness ==
    /\ op = "new"
    /\ behavior = If(Sequence(<<Wait(1), Action("Inc")>>),
                     WhenAll(<<Wait(1), Wait(2)>>), After(<<Wait(1), Wait(2)>>))
    /\ state.tag = "IfState"
    /\ state.status = Running
    /\ state.state = SequenceState(<<Wait(1), Action("Inc")>>, 0, WaitState(1, 0))

(***************************************************************************)
(* C10.  Every step call terminates: no call of tick or event is left      *)
(* running forever inside the While loop.                                  *)
(***************************************************************************)
C10_Terminates == ~Hung

(***************************************************************************)
(* C11.  tick(dt) is event on the update event carrying dt: the same       *)
(* cursor mutation, the same calls of the callback, and the caller gets    *)
(* the (Status, f64) that event returns.                                   *)
(***************************************************************************)
C11_TickIsEvent ==
    op = "tick" =>
        LET r == event(Unwrap(pre), UpdateEv(Unwrap(ev).dt))
        IN  /\ state = r.s
            /\ calls = r.calls
            /\ ret = Some(<<r.status, r.dt>>)

\* The sum of f over the indices lo..hi.
RECURSIVE Sum(_, _, _)
Sum(f, lo, hi) == IF lo > hi THEN 0 ELSE f[lo] + Sum(f, lo + 1, hi)

\* The number of leaf Action cursors one step on a discrete event can reach
\* from the cursor s: Select and Sequence reach into their current child
\* only; If reaches into its condition and then into the chosen branch,
\* While into its condition and its current body child, WhenAll/WhenAny
\* into every present branch, After into every child from the frontier on.
RECURSIVE Paths(_)
Paths(s) ==
    CASE s.tag = "ActionState" -> 1
      [] s.tag \in {"FailState", "AlwaysSucceedState"} -> Paths(s.cur)
      [] s.tag \in {"SelectState", "SequenceState"} ->
            IF s.i < Len(s.seq) THEN Paths(s.cursor) ELSE 0
      [] s.tag = "IfState" ->
            IF s.status = Running
            THEN LET a == Paths(New(s.success))
                     b == Paths(New(s.failure))
                 IN  Paths(s.state) + (IF a >= b THEN a ELSE b)
            ELSE Paths(s.state)
      [] s.tag = "WhileState" -> Paths(s.ev_cursor) + Paths(s.cursor)
      [] s.tag \in {"WhenAllState", "WhenAnyState"} ->
            Sum([k \in 1..Len(s.slots) |->
                    IF s.slots[k] = None THEN 0 ELSE Paths(Unwrap(s.slots[k]))],
                1, Len(s.slots))
      [] s.tag = "AfterState" ->
            Sum([k \in 1..Len(s.cursors) |-> Paths(s.cursors[k])],
                s.i + 1, Len(s.cursors))
      [] OTHER -> 0

(***************************************************************************)
(* C12 as stated.  During one step on a discrete event the event reaches   *)
(* at most one leaf cursor (at most one call of the callback), and no      *)
(* derived event is constructed from it (the callback gets the event       *)
(* itself, with delta time 0).                                             *)
(***************************************************************************)
C12_OnePath ==
    InputStep =>
        /\ Len(calls) <= 1
        /\ \A k \in 1..Len(calls) : calls[k][3] = Unwrap(ev) /\ calls[k][2] = 0

(***************************************************************************)
(* C12 as amended.  During one step on a discrete event no derived event   *)
(* is constructed: every call of the callback gets the event itself, with  *)
(* delta time 0.  Select and Sequence deliver it to their current child    *)
(* only and While to one body child only; If (condition, then the chosen   *)
(* branch), While (condition, then body child), WhenAll/WhenAny (every     *)
(* present branch) and After (every child from the frontier on) deliver    *)
(* it along several cursor paths, so the callback is called at most once   *)
(* per leaf so reachable.                                                  *)
(***************************************************************************)
C12_NoDerivedEvent ==
    InputStep =>
        /\ \A k \in 1..Len(calls) : calls[k][3] = Unwrap(ev) /\ calls[k][2] = 0
        /\ Len(calls) <= Paths(Unwrap(pre))

\* If(Inc, Inc, Flop) on a discrete event: the condition and then the
\* success branch both get the event, and the callback is called twice.
C12_Witness ==
    /\ behavior = If(Action("Inc"), Action("Inc"), Action("Flop"))
    /\ ev = Some(InputEv)
    /\ calls = << <<"Inc", 0, InputEv>>, <<"Inc", 0, InputEv>> >>
    /\ result = Some(<<Success, 0>>)

(***************************************************************************)
(* C13.  A discrete event reaching a Wait cursor returns (Running, 0) and  *)
(* leaves total and elapsed unchanged, in every state of the Wait, also    *)
(* after it has completed; a WaitForever cursor returns (Running, 0) for   *)
(* every event and is never changed.                                       *)
(***************************************************************************)
C13_WaitIgnoresInput ==
    /\ (InputStep /\ Unwrap(pre).tag = "WaitState") =>
            /\ state = Unwrap(pre)
            /\ result = Some(<<Running, 0>>)
            /\ calls = <<>>
    /\ (pre # None /\ Unwrap(pre).tag = "WaitForeverState") =>
            /\ state = WaitForeverState
            /\ result = Some(<<Running, 0>>)
            /\ calls = <<>>
    /\ \A w \in 0..MaxWait, t \in 0..MaxWait :
            t <= w =>
                LET r == event(WaitState(w, t), InputEv)
                IN  r.s = WaitState(w, t) /\ r.status = Running /\ r.dt = 0

\* A completed Wait(1) is handed a discrete event and stays as it is.
C13_Witness ==
    /\ behavior = Wait(1)
    /\ pre = Some(WaitState(1, 1))
    /\ ev = Some(InputEv)
    /\ state = WaitState(1, 1)
    /\ result = Some(<<Running, 0>>)

\* The last step was taken on a While cursor.
WhileStep == pre # None /\ Unwrap(pre).tag = "WhileState"

\* What the condition cursor of the While cursor p returns on the event e.
Cond(p, e) == event(p.ev_cursor, e)

\* What the current body child of the While cursor p returns when it is the
\* first one advanced in a step on the event e.
Body(p, e) ==
    event(p.cursor, RemainingE(Update(e), UnwrapOr(Update(e), 0), e))

\* s is a prefix of t.
IsPrefix(s, t) == Len(s) <= Len(t) /\ SubSeq(t, 1, Len(s)) = s

(***************************************************************************)
(* C14.  In every step on a While cursor the condition cursor is advanced  *)
(* first, with the original event; if the condition returns Success or     *)
(* Failure, While returns exactly that (status, dt) and no body child is   *)
(* advanced: no body callback is invoked, and the body index and the body  *)
(* cursor are unchanged.                                                   *)
(***************************************************************************)
C14_ConditionFirst ==
    WhileStep =>
        LET p == Unwrap(pre)
            x == Cond(p, Unwrap(ev))
        IN  x.status # Diverge =>
                /\ state.ev_cursor = x.s
                /\ IsPrefix(x.calls, calls)
                /\ x.status \in {Success, Failure} =>
                        /\ result = Some(<<x.status, x.dt>>)
                        /\ calls = x.calls
                        /\ state = [p EXCEPT !.ev_cursor = x.s]

\* While(Flop, [Inc]) ticked with 3: the condition fails with 3 left, the
\* While fails with 3 left and Inc is not called.
C14_Witness ==
    /\ behavior = While(Action("Flop"), <<Action("Inc")>>)
    /\ ev = Some(UpdateEv(3))
    /\ result = Some(<<Failure, 3>>)
    /\ calls = << <<"Flop", 3, UpdateEv(3)>> >>
    /\ state.i = 0 /\ state.cursor = New(Action("Inc"))

(***************************************************************************)
(* C15 as stated.  In a While step whose condition is Running, when the    *)
(* current body child returns Running with leftover dt the While returns   *)
(* (Running, dt); when it returns Failure with leftover dt the While       *)
(* returns (Failure, dt).                                                  *)
(***************************************************************************)
C15_BodyResult ==
    WhileStep =>
        LET p == Unwrap(pre)
            x == Cond(p, Unwrap(ev))
            b == Body([p EXCEPT !.ev_cursor = x.s], Unwrap(ev))
        IN  x.status = Running =>
                /\ b.status = Running => result = Some(<<Running, b.dt>>)
                /\ b.status = Failure => result = Some(<<Failure, b.dt>>)

(***************************************************************************)
(* C15 as amended.  In a While step whose condition is Running, when the   *)
(* current body child returns Running the While returns (Running, 0),      *)
(* whatever leftover dt the child returned, and keeps the child's cursor;  *)
(* when the body child returns Failure with leftover dt the While returns  *)
(* (Failure, dt).  No While step returns Running with a dt other than 0    *)
(* unless its condition terminated.                                        *)
(***************************************************************************)
C15_BodyRunningZero ==
    WhileStep =>
        LET p == Unwrap(pre)
            x == Cond(p, Unwrap(ev))
            p1 == [p EXCEPT !.ev_cursor = x.s]
            b == Body(p1, Unwrap(ev))
        IN  x.status = Running =>
                /\ b.status = Running =>
                        /\ result = Some(<<Running, 0>>)
                        /\ state = [p1 EXCEPT !.cursor = b.s]
                        /\ calls = x.calls \o b.calls
                /\ b.status = Failure =>
                        /\ result = Some(<<Failure, b.dt>>)
                        /\ state = [p1 EXCEPT !.cursor = b.s]
                /\ result[1][1] = Running => result[1][2] = 0

\* While(WaitForever, [Idle]) ticked with 3: the callback returns
\* (Running, 3) and the While returns (Running, 0).
C15_Witness ==
    /\ behavior = While(WaitForever, <<Action("Idle")>>)
    /\ ev = Some(UpdateEv(3))
    /\ calls = << <<"Idle", 3, UpdateEv(3)>> >>
    /\ result = Some(<<Running, 0>>)

\* Every While cursor in the cursor tree s has its body index within its
\* body list.
RECURSIVE IndexInRange(_)
IndexInRange(s) ==
    CASE s.tag \in {"FailState", "AlwaysSucceedState"} -> IndexInRange(s.cur)
      [] s.tag = "IfState" -> IndexInRange(s.state)
      [] s.tag \in {"SelectState", "SequenceState"} -> IndexInRange(s.cursor)
      [] s.tag = "WhileState" ->
            /\ s.i >= 0 /\ s.i < Len(s.rep)
            /\ IndexInRange(s.ev_cursor) /\ IndexInRange(s.cursor)
      [] s.tag \in {"WhenAllState", "WhenAnyState"} ->
            \A k \in 1..Len(s.slots) :
                s.slots[k] # None => IndexInRange(Unwrap(s.slots[k]))
      [] s.tag = "AfterState" ->
            \A k \in 1..Len(s.cursors) : IndexInRange(s.cursors[k])
      [] OTHER -> TRUE

(***************************************************************************)
(* C16.  With a time-carrying event and a Running condition, when the body *)
(* child at index i succeeds with leftover r, the index becomes            *)
(* (i + 1) mod n, the body cursor is replaced by a fresh cursor for that   *)
(* child, and that child is advanced in the same step with a derived event *)
(* carrying r; the body index is in [0, n) in every reachable state.       *)
(***************************************************************************)
C16_Cyclic ==
    /\ IndexInRange(state)
    /\ (WhileStep /\ TimeStep) =>
        LET p == Unwrap(pre)
            n == Len(p.rep)
            x == Cond(p, Unwrap(ev))
            b == Body(p, Unwrap(ev))
            i2 == (p.i + 1) % n
            c == event(New(p.rep[i2 + 1]), UpdateEv(b.dt))
            p2 == [p EXCEPT !.ev_cursor = x.s, !.i = i2, !.cursor = c.s]
        IN  (x.status = Running /\ b.status = Success) =>
                /\ IsPrefix(x.calls \o b.calls \o c.calls, calls)
                /\ c.status = Running =>
                        /\ state = p2
                        /\ result = Some(<<Running, 0>>)
                        /\ calls = x.calls \o b.calls \o c.calls
                /\ c.status = Failure =>
                        /\ state = p2
                        /\ result = Some(<<Failure, c.dt>>)
                        /\ calls = x.calls \o b.calls \o c.calls

\* While(WaitForever, [Wait(1), Wait(2)]) at its second child, ticked with
\* 2: Wait(2) succeeds with 0 left, the index wraps to 0 and a fresh
\* Wait(1) is advanced with 0.
C16_Witness ==
    /\ behavior = While(WaitForever, <<Wait(1), Wait(2)>>)
    /\ pre # None /\ Unwrap(pre).tag = "WhileState" /\ Unwrap(pre).i = 1
    /\ ev = Some(UpdateEv(2))
    /\ state.i = 0 /\ state.cursor = WaitState(1, 0)
    /\ result = Some(<<Running, 0>>)

(***************************************************************************)
(* Runs of a single If cursor over small subtrees, fed delta times up to   *)
(* MaxIfDt.                                                                *)
(***************************************************************************)
IfConditions == Leaf \cup {Sequence(<<Wait(1), Action("Flop")>>)}

IfBranches == Leaf \cup {Sequence(<<Wait(1), Wait(1)>>)}

InitIf ==
    /\ \E c \in IfConditions, s \in IfBranches, f \in IfBranches :
            InitOn(If(c, s, f))
    /\ twin = None
    /\ twinResult = None

NextIf ==
    \/ \E dt \in 0..MaxIfDt : Tick(dt)
    \/ \E dt \in 0..MaxIfDt : Event(UpdateEv(dt))
    \/ Event(InputEv)

SpecIf == InitIf /\ [][NextIf]_vars

\* The last step was taken on an If cursor.
IfStep == pre # None /\ Unwrap(pre).tag = "IfState"

(***************************************************************************)
(* C17.  When an If's condition terminates during a step on a              *)
(* time-carrying event with leftover r, the nested cursor is replaced by a *)
(* fresh cursor for the success branch (condition Success) or the failure  *)
(* branch (condition Failure), that branch is advanced in the same step    *)
(* with a derived event carrying exactly r, and the If returns the         *)
(* branch's (status, leftover); If(Wait(1), Wait(2), B) fed 4 from fresh   *)
(* returns (Success, 1).  While the condition is Running the If returns    *)
(* (Running, dt) with the condition's dt and the branches are untouched.   *)
(***************************************************************************)
C17_BranchSameStep ==
    /\ (IfStep /\ Unwrap(pre).status = Running) =>
        LET p == Unwrap(pre)
            c == event(p.state, Unwrap(ev))
            branch == IF c.status = Success THEN p.success ELSE p.failure
            b == event(New(branch), UpdateEv(c.dt))
        IN  /\ c.status = Running =>
                    /\ result = Some(<<Running, c.dt>>)
                    /\ state = [p EXCEPT !.state = c.s]
                    /\ calls = c.calls
            /\ (TimeStep /\ c.status \in {Success, Failure}) =>
                    /\ result = Some(<<b.status, b.dt>>)
                    /\ state = [p EXCEPT !.status = c.status, !.state = b.s]
                    /\ calls = c.calls \o b.calls
    /\ (/\ IfStep /\ Unwrap(pre) = New(behavior)
        /\ behavior.condition = Wait(1) /\ behavior.success = Wait(2)
        /\ ev = Some(UpdateEv(4))) => result = Some(<<Success, 1>>)

\* If(Wait(1), Wait(2), Flop) fed 4 from fresh: the condition leaves 3, the
\* success branch leaves 1.
C17_Witness ==
    /\ behavior = If(Wait(1), Wait(2), Action("Flop"))
    /\ pre = Some(New(behavior))
    /\ ev = Some(UpdateEv(4))
    /\ state = IfState(Wait(2), Action("Flop"), Success, WaitState(2, 2))
    /\ result = Some(<<Success, 1>>)

\* s is a cursor over the behavior b, at whatever point of its run.
RECURSIVE Over(_, _)
Over(b, s) ==
    CASE b.tag = "Action" -> s.tag = "ActionState" /\ s.action = b.action
      [] b.tag = "Fail" -> s.tag = "FailState" /\ Over(b.child, s.cur)
      [] b.tag = "AlwaysSucceed" ->
            s.tag = "AlwaysSucceedState" /\ Over(b.child, s.cur)
      [] b.tag = "Wait" -> s.tag = "WaitState" /\ s.wait_t = b.dt
      [] b.tag = "WaitForever" -> s.tag = "WaitForeverState"
      [] b.tag = "If" ->
            /\ s.tag = "IfState"
            /\ s.success = b.success /\ s.failure = b.failure
            /\ Over(CASE s.status = Running -> b.condition
                      [] s.status = Success -> b.success
                      [] OTHER -> b.failure, s.state)
      [] b.tag \in {"Select", "Sequence"} ->
            /\ s.tag = (IF b.tag = "Select" THEN "SelectState" ELSE "SequenceState")
            /\ s.seq = b.seq
            /\ s.i < Len(b.seq) => Over(b.seq[s.i + 1], s.cursor)
      [] b.tag = "While" ->
            /\ s.tag = "WhileState" /\ s.rep = b.rep
            /\ Over(b.ev, s.ev_cursor)
            /\ s.i < Len(b.rep) /\ Over(b.rep[s.i + 1], s.cursor)
      [] b.tag \in {"WhenAll", "WhenAny"} ->
            /\ s.tag = (IF b.tag = "WhenAll" THEN "WhenAllState" ELSE "WhenAnyState")
            /\ Len(s.slots) = Len(b.all)
            /\ \A k \in 1..Len(b.all) :
                    s.slots[k] # None => Over(b.all[k], Unwrap(s.slots[k]))
      [] b.tag = "After" ->
            /\ s.tag = "AfterState"
            /\ Len(s.cursors) = Len(b.seq)
            /\ \A k \in 1..Len(b.seq) : Over(b.seq[k], s.cursors[k])
      [] OTHER -> FALSE

(***************************************************************************)
(* C20.  The phase of an If cursor changes at most once, from Running to   *)
(* Success or to Failure, and never afterwards; after that change the      *)
(* condition is never advanced again and the nested cursor is never        *)
(* rebuilt: every later step advances the nested cursor as it stands,      *)
(* which is a cursor over the branch the phase names, so at most one of    *)
(* the two branches ever has a cursor built and advanced.                  *)
(***************************************************************************)
C20_PhaseOnce ==
    /\ Over(behavior, state)
    /\ IfStep =>
        LET p == Unwrap(pre)
            e == Unwrap(ev)
            b == event(p.state, RemainingE(Update(e), UnwrapOr(Update(e), 0), e))
        IN  /\ state.success = p.success /\ state.failure = p.failure
            /\ state.status # p.status => p.status = Running
            /\ p.status # Running =>
                    /\ state = [p EXCEPT !.state = b.s]
                    /\ calls = b.calls
                    /\ result = Some(<<b.status, b.dt>>)

\* If(Inc, Wait(2), WaitForever) whose condition succeeded in an earlier
\* step and whose success branch has 1 of its 2 elapsed: a step with 1
\* completes the same Wait(2) cursor and does not call Inc again.
C20_Witness ==
    /\ behavior = If(Action("Inc"), Wait(2), WaitForever)
    /\ pre = Some(IfState(Wait(2), WaitForever, Success, WaitState(2, 1)))
    /\ ev = Some(UpdateEv(1))
    /\ state = IfState(Wait(2), WaitForever, Success, WaitState(2, 2))
    /\ calls = <<>>
    /\ result = Some(<<Success, 0>>)

\* The last step was taken on a WhenAll or WhenAny cursor.
WhenStep == pre # None /\ Unwrap(pre).tag \in {"WhenAllState", "WhenAnyState"}

\* The terminal that retires a branch of the cursor p.
Settle(p) == IF p.tag = "WhenAllState" THEN Success ELSE Failure

\* The branches of p whose slot is present.
Present(p) == {j \in 1..Len(p.slots) : p.slots[j] # None}

(***************************************************************************)
(* C18 as stated.  In WhenAll/WhenAny a cleared slot is never advanced or  *)
(* filled again; the node returns (Running, 0) in every step after which   *)
(* at least one slot is still present, and returns the settle status, with *)
(* the minimum leftover dt of the branches retired in that step, exactly   *)
(* in the step in which the last present slot is cleared.                  *)
(***************************************************************************)
C18_RunningWhilePresent ==
    (WhenStep /\ ~Hung) =>
        LET p == Unwrap(pre)
            e == Unwrap(ev)
            c(j) == event(Unwrap(p.slots[j]), e)
            Retired == Present(p) \ Present(state)
            lastCleared == Present(p) # {} /\ Present(state) = {}
        IN  /\ \A j \in 1..Len(p.slots) : p.slots[j] = None => state.slots[j] = None
            /\ Present(state) # {} => result = Some(<<Running, 0>>)
            /\ result[1][1] = Settle(p) <=> lastCleared
            /\ lastCleared =>
                    result = Some(<<Settle(p), Least({c(j).dt : j \in Retired})>>)

(***************************************************************************)
(* C18 as amended.  In WhenAll/WhenAny a branch that returned the settle   *)
(* terminal has its slot cleared and is never advanced again in that or    *)
(* any later step.  In a step in which no present branch returns the       *)
(* short-circuit terminal, every present branch is advanced once; the node *)
(* returns (Running, 0) when a slot is still present after the step, and   *)
(* the settle status when none is, with the minimum leftover dt of the     *)
(* branches retired in that step when there are any.  (A step in which a   *)
(* branch short-circuits returns the short-circuit status with slots still *)
(* present; a node without present slots returns the settle status in      *)
(* every step.)                                                            *)
(***************************************************************************)
C18_SettleOrRunning ==
    WhenStep =>
        LET p == Unwrap(pre)
            e == Unwrap(ev)
            n == Len(p.slots)
            settle == Settle(p)
            c(j) == event(Unwrap(p.slots[j]), e)
            Retired == {j \in Present(p) : c(j).status = settle}
        IN  /\ \A j \in 1..n : p.slots[j] = None => state.slots[j] = None
            /\ (\A j \in Present(p) : c(j).status \in {Running, settle}) =>
                    /\ \A j \in Present(p) :
                            state.slots[j] =
                                IF j \in Retired THEN None ELSE Some(c(j).s)
                    /\ calls = BranchCalls(p.slots, e, n)
                    /\ Present(state) # {} => result = Some(<<Running, 0>>)
                    /\ Present(state) = {} => result[1][1] = settle
                    /\ (Present(state) = {} /\ Retired # {}) =>
                            result[1][2] = Least({c(j).dt : j \in Retired})

\* WhenAll([Wait(1), Wait(2)]) whose first branch retired in an earlier
\* step, fed 3: the second branch retires with 2 left and the node succeeds
\* with 2 left; the retired first branch is not advanced.
C18_Witness ==
    /\ behavior = WhenAll(<<Wait(1), Wait(2)>>)
    /\ pre = Some(WhenAllState(<<None, Some(WaitState(2, 1))>>))
    /\ ev = Some(UpdateEv(3))
    /\ state = WhenAllState(<<None, None>>)
    /\ result = Some(<<Success, 2>>)

\* The behavior b has a WhenAll or WhenAny node, whose steps are those of
\* when_all.
RECURSIVE HasWhen(_)
HasWhen(b) ==
    CASE b.tag \in {"WhenAll", "WhenAny"} -> TRUE
      [] b.tag \in {"Fail", "AlwaysSucceed"} -> HasWhen(b.child)
      [] b.tag = "If" ->
            HasWhen(b.condition) \/ HasWhen(b.success) \/ HasWhen(b.failure)
      [] b.tag \in {"Select", "Sequence", "After"} ->
            \E k \in 1..Len(b.seq) : HasWhen(b.seq[k])
      [] b.tag = "While" ->
            HasWhen(b.ev) \/ \E k \in 1..Len(b.rep) : HasWhen(b.rep[k])
      [] OTHER -> FALSE

(***************************************************************************)
(* C19.  With callbacks that return a leftover dt between 0 and the dt     *)
(* they were given, the leftover dt returned by a step on a time-carrying  *)
(* event with dt >= 0 is between 0 and that dt, for every tree (After([])  *)
(* included) and every reachable cursor state.  Stated here for the trees  *)
(* without WhenAll/WhenAny nodes, every step of which is in the source.    *)
(***************************************************************************)
C19_LeftoverBounded ==
    (TimeStep /\ ~Hung /\ ~HasWhen(behavior)) =>
        /\ result[1][2] >= 0
        /\ result[1][2] <= Unwrap(ev).dt

=============================================================================
